---- MODULE Spec2Model ----
(***************************************************************************)
(* Model of app/knowledge_base/file_parser.py: extract_text_from_file.     *)
(*                                                                         *)
(* Strings (paths, hints, texts) are sequences of Unicode code points and  *)
(* file contents are sequences of byte values, so that lower-casing,       *)
(* suffix extraction, decoding, newline translation and strip() are        *)
(* computed the way Python computes them.  The filesystem and the two      *)
(* parsing libraries (pypdf, python-docx) are the environment: the state   *)
(* of the file is chosen in Init and every outcome the libraries can       *)
(* produce for that file is followed.                                      *)
(***************************************************************************)
EXTENDS Integers, Sequences, FiniteSets

VARIABLES
    file_path,       \* argument: the path, a string
    mime_type,       \* argument: the optional content-type hint
    fs,              \* the filesystem entry the path names (environment)
    pc,              \* position of the call in the function body
    file_extension,  \* local, line 29
    extracted_text,  \* local, line 23
    idx,             \* position of the page / paragraph loop
    route,           \* branch of the if/elif chain of lines 42-83 taken
    outcome,         \* how the call ended: a returned string or a raise
    log,             \* logging events emitted by the call, in order
    calls,           \* number of the current call
    prev             \* summary of the preceding call on the same file

vars == <<file_path, mime_type, fs, pc, file_extension, extracted_text,
          idx, route, outcome, log, calls, prev>>

----------------------------------------------------------------------------
(* Bounds of the model *)

MaxBytes == 3    \* longest enumerated raw file content, in bytes
MaxPages == 3    \* most pages of a PDF
MaxParas == 3    \* most paragraphs of a DOCX
MaxCalls == 2    \* calls made one after the other on the same file

----------------------------------------------------------------------------
(* String constants of the source, as code points *)

NL == 10   \* "\n"

\* "Unsupported file type"
Sentinel ==
    <<85,110,115,117,112,112,111,114,116,101,100,32,102,105,108,101,32,
      116,121,112,101>>

ExtPdf  == <<46,112,100,102>>        \* ".pdf"
ExtDocx == <<46,100,111,99,120>>     \* ".docx"
ExtTxt  == <<46,116,120,116>>        \* ".txt"

KeyPdf   == <<112,100,102>>          \* "pdf"
KeyPlain == <<112,108,97,105,110>>   \* "plain"
\* "wordprocessingml.document"
KeyDocx ==
    <<119,111,114,100,112,114,111,99,101,115,115,105,110,103,109,108,46,
      100,111,99,117,109,101,110,116>>

----------------------------------------------------------------------------
(* Python string and path operations used by the function *)

\* str.lower() on the ASCII range
Lower(s) ==
    [i \in 1..Len(s) |-> IF s[i] >= 65 /\ s[i] <= 90 THEN s[i] + 32 ELSE s[i]]

\* `sub in s` for strings
Contains(s, sub) ==
    \E i \in 1..(Len(s) - Len(sub) + 1) : SubSeq(s, i, i + Len(sub) - 1) = sub

\* Path(p).name: the component after the last "/"
PathName(p) ==
    LET slashes == {i \in 1..Len(p) : p[i] = 47}
        last == IF slashes = {} THEN 0
                ELSE CHOOSE i \in slashes : \A j \in slashes : j <= i
    IN  SubSeq(p, last + 1, Len(p))

\* Path(p).suffix: the part of the name from its last "." on, empty when the
\* name has no dot, starts with its only dot, or ends with a dot
Suffix(p) ==
    LET name == PathName(p)
        dots == {i \in 1..Len(name) : name[i] = 46}
        last == IF dots = {} THEN 0
                ELSE CHOOSE i \in dots : \A j \in dots : j <= i
    IN  IF last > 1 /\ last < Len(name)
        THEN SubSeq(name, last, Len(name))
        ELSE <<>>

\* str.isspace() for one character (code points below 256 are all the model
\* produces from the byte alphabet; the wider Unicode spaces are listed too)
IsSpace(c) ==
    \/ c >= 9 /\ c <= 13
    \/ c >= 28 /\ c <= 32
    \/ c \in {133, 160, 5760, 8232, 8233, 8239, 8287, 12288}
    \/ c >= 8192 /\ c <= 8202

\* Variant of Strip that drops only the trailing whitespace (rstrip)
Strip_RightOnly(s) ==
    LET solid == {i \in 1..Len(s) : ~IsSpace(s[i])}
    IN  IF solid = {} THEN <<>>
        ELSE SubSeq(s, 1, CHOOSE i \in solid : \A j \in solid : j <= i)

\* str.strip(): drop the leading and the trailing run of whitespace
Strip(s) ==
    LET solid == {i \in 1..Len(s) : ~IsSpace(s[i])}
    IN  IF solid = {} THEN <<>>
        ELSE SubSeq(s,
                    CHOOSE i \in solid : \A j \in solid : i <= j,
                    CHOOSE i \in solid : \A j \in solid : j <= i)

IsCont(b) == b >= 128 /\ b <= 191

\* bytes.decode("utf-8", errors="strict"): the decoded code points, or
\* ok = FALSE where Python raises UnicodeDecodeError
RECURSIVE Utf8Decode(_)
Utf8Decode(b) ==
    IF b = <<>> THEN [ok |-> TRUE, text |-> <<>>]
    ELSE
      LET b1 == b[1]
          n  == Len(b)
          one   == b1 < 128
          two   == b1 >= 194 /\ b1 <= 223 /\ n >= 2 /\ IsCont(b[2])
          three == /\ b1 >= 224 /\ b1 <= 239 /\ n >= 3
                   /\ IsCont(b[2]) /\ IsCont(b[3])
                   /\ (b1 = 224 => b[2] >= 160)
                   /\ (b1 = 237 => b[2] <= 159)
          four  == /\ b1 >= 240 /\ b1 <= 244 /\ n >= 4
                   /\ IsCont(b[2]) /\ IsCont(b[3]) /\ IsCont(b[4])
                   /\ (b1 = 240 => b[2] >= 144)
                   /\ (b1 = 244 => b[2] <= 143)
          used == IF one THEN 1 ELSE IF two THEN 2 ELSE IF three THEN 3
                  ELSE IF four THEN 4 ELSE 0
          cp == IF one THEN b1
                ELSE IF two THEN (b1 - 192) * 64 + (b[2] - 128)
                ELSE IF three
                  THEN (b1 - 224) * 4096 + (b[2] - 128) * 64 + (b[3] - 128)
                ELSE IF four
                  THEN (b1 - 240) * 262144 + (b[2] - 128) * 4096
                       + (b[3] - 128) * 64 + (b[4] - 128)
                ELSE 0
      IN  IF used = 0 THEN [ok |-> FALSE, text |-> <<>>]
          ELSE LET rest == Utf8Decode(SubSeq(b, used + 1, n))
               IN  IF rest.ok
                   THEN [ok |-> TRUE, text |-> <<cp>> \o rest.text]
                   ELSE [ok |-> FALSE, text |-> <<>>]

\* Variant of Latin1Decode with a fallback codec that rejects bytes >= 0x80
Latin1Decode_AsciiOnly(b) ==
    [ok |-> \A i \in 1..Len(b) : b[i] < 128, text |-> [i \in 1..Len(b) |-> b[i]]]

\* bytes.decode("latin-1"): byte value k is the character U+00kk, for every
\* byte value; it cannot fail
Latin1Decode(b) == [ok |-> TRUE, text |-> [i \in 1..Len(b) |-> b[i]]]

\* Text mode with newline=None (the default of open()): "\r\n" and a lone
\* "\r" are both read as "\n"
RECURSIVE UniversalNewlines(_)
UniversalNewlines(s) ==
    IF s = <<>> THEN <<>>
    ELSE IF s[1] = 13
      THEN IF Len(s) >= 2 /\ s[2] = NL
           THEN <<NL>> \o UniversalNewlines(SubSeq(s, 3, Len(s)))
           ELSE <<NL>> \o UniversalNewlines(Tail(s))
    ELSE <<s[1]>> \o UniversalNewlines(Tail(s))

\* open(path, 'r', encoding=enc).read() on a file holding the bytes b
ReadText(b, enc) ==
    LET d == IF enc = "utf-8" THEN Utf8Decode(b) ELSE Latin1Decode(b)
    IN  [ok |-> d.ok, text |-> UniversalNewlines(d.text)]

----------------------------------------------------------------------------
(* Inputs and environment *)

\* The hint argument: None, or a string
NoHint == [given |-> FALSE, text |-> <<>>]
Hint(s) == [given |-> TRUE, text |-> s]

Hints ==
    { NoHint,
      \* "application/pdf"
      Hint(<<97,112,112,108,105,99,97,116,105,111,110,47,112,100,102>>),
      \* "TEXT/PLAIN"
      Hint(<<84,69,88,84,47,80,76,65,73,78>>),
      \* "application/vnd.openxmlformats-officedocument.wordprocessingml.document"
      Hint(<<97,112,112,108,105,99,97,116,105,111,110,47,118,110,100,46,111,
             112,101,110,120,109,108,102,111,114,109,97,116,115,45,111,102,
             102,105,99,101,100,111,99,117,109,101,110,116,46,119,111,114,
             100,112,114,111,99,101,115,115,105,110,103,109,108,46,100,111,
             99,117,109,101,110,116>>) }

Paths ==
    { <<97,46,112,100,102>>,          \* "a.pdf"
      <<98,46,80,68,70>>,             \* "b.PDF"
      <<97,46,100,111,99,120>>,       \* "a.docx"
      <<97,46,84,120,116>>,           \* "a.Txt"
      <<97,46,112,121>>,              \* "a.py"
      <<46,112,100,102>>,             \* ".pdf"  (a dot-file, no suffix)
      <<100,46,116,120,116,47,97>> }  \* "d.txt/a"  (no suffix)

SeqsUpTo(S, n) == UNION {[1..k -> S] : k \in 0..n}

\* One page or paragraph as the library hands it over: its text, or a
\* failure of the library while producing it
Unit(t) == [ok |-> TRUE, text |-> t]
UnitFailure == [ok |-> FALSE, text |-> <<>>]

PageTexts == {<<>>, <<65>>, <<32,66>>}   \* "", "A", " B"
ParaTexts == {<<>>, <<65>>, <<66>>}      \* "", "A", "B"

\* Byte values raw files are built from: LF, CR, "A", 0xA0 (a UTF-8
\* continuation byte, NO-BREAK SPACE in latin-1), 0xC3 (a UTF-8 lead byte)
ByteAlphabet == {10, 13, 65, 160, 195}

HelloBytes == <<72,101,108,108,111,44,32,119,111,114,108,100>>  \* "Hello, world"
PdfBytes  == <<37,80,68,70,226,227>>   \* "%PDF" and a binary marker
DocxBytes == <<80,75,3,4>>             \* zip local file header

PdfDocs ==
    { [kind |-> "pdf", units |-> u, bytes |-> PdfBytes, io |-> io] :
        u \in SeqsUpTo({Unit(t) : t \in PageTexts} \cup {UnitFailure}, MaxPages),
        io \in {"ok", "denied"} }

DocxDocs ==
    { [kind |-> "docx", units |-> u, bytes |-> DocxBytes, io |-> io] :
        u \in SeqsUpTo({Unit(t) : t \in ParaTexts} \cup {UnitFailure}, MaxParas),
        io \in {"ok", "denied"} }

RawDocs ==
    { [kind |-> "raw", units |-> <<>>, bytes |-> b, io |-> io] :
        b \in SeqsUpTo(ByteAlphabet, MaxBytes) \cup {HelloBytes, Sentinel},
        io \in {"ok", "denied", "vanishes"} }

NoDoc == [kind |-> "none", units |-> <<>>, bytes |-> <<>>, io |-> "ok"]

\* What the path names.  stat = "error" is a stat() failure other than
\* ENOENT/ENOTDIR/EBADF/ELOOP (EACCES on a parent directory, ENAMETOOLONG),
\* which Path.exists() re-raises; it can happen whether or not the entry
\* is there.
FileStates ==
    { [entry |-> "absent", stat |-> st, doc |-> NoDoc] : st \in {"ok", "error"} }
    \cup
    { [entry |-> "present", stat |-> st, doc |-> d] :
        st \in {"ok", "error"}, d \in PdfDocs \cup DocxDocs \cup RawDocs }

----------------------------------------------------------------------------
(* The call *)

NoOutcome == [kind |-> "none", value |-> <<>>]
Return(v) == [kind |-> "return", value |-> v]
Raise     == [kind |-> "raise", value |-> <<>>]
NoPrev    == [called |-> FALSE, mime_type |-> NoHint, outcome |-> NoOutcome,
              route |-> "none", log |-> <<>>]

Init ==
    /\ file_path \in Paths
    /\ mime_type \in Hints
    /\ fs \in FileStates
    /\ pc = "start"
    /\ file_extension = <<>>
    /\ extracted_text = <<>>
    /\ idx = 0
    /\ route = "none"
    /\ outcome = NoOutcome
    /\ log = <<>>
    /\ calls = 1
    /\ prev = NoPrev

\* `return v`, after logging the events ev
Finish(v, ev) ==
    /\ outcome' = Return(v)
    /\ log' = log \o ev
    /\ pc' = "done"

\* Lines 22-27: Path(file_path).exists() and the early return.  The call
\* is outside every try block, so a stat() failure leaves the function
\* as an exception.
CheckExists ==
    /\ pc = "start"
    /\ IF fs.stat = "error"
         THEN /\ outcome' = Raise
              /\ pc' = "done"
              /\ log' = log
         ELSE IF fs.entry = "absent"
         THEN Finish(<<>>, <<"error:file_not_found">>)
         ELSE /\ pc' = "hint"
              /\ UNCHANGED <<outcome, log>>
    /\ UNCHANGED <<file_path, mime_type, fs, file_extension, extracted_text,
                   idx, route, calls, prev>>

\* Lines 32-38: the warning, if any, the hint leads to
MimeWarning(m, ext) ==
    IF ~m.given \/ m.text = <<>> THEN <<>>
    ELSE IF Contains(Lower(m.text), KeyPdf) /\ ext # ExtPdf
      THEN <<"warning:mime_suggests_pdf">>
    ELSE IF Contains(Lower(m.text), KeyDocx) /\ ext # ExtDocx
      THEN <<"warning:mime_suggests_docx">>
    ELSE IF Contains(Lower(m.text), KeyPlain) /\ ext # ExtTxt
      THEN <<"warning:mime_suggests_txt">>
    ELSE <<>>

\* Variant of InspectHint that lets a recognised hint override the extension
InspectHint_TrustHint ==
    /\ pc = "hint"
    /\ file_extension' =
         IF mime_type.given /\ Contains(Lower(mime_type.text), KeyPdf)
           THEN ExtPdf
         ELSE IF mime_type.given /\ Contains(Lower(mime_type.text), KeyDocx)
           THEN ExtDocx
         ELSE IF mime_type.given /\ Contains(Lower(mime_type.text), KeyPlain)
           THEN ExtTxt
         ELSE Lower(Suffix(file_path))
    /\ log' = log \o MimeWarning(mime_type, Lower(Suffix(file_path)))
    /\ pc' = "dispatch"
    /\ UNCHANGED <<file_path, mime_type, fs, extracted_text, idx, route,
                   outcome, calls, prev>>

\* Lines 29-38: the extension is taken from the path; the hint is only logged
InspectHint ==
    /\ pc = "hint"
    /\ file_extension' = Lower(Suffix(file_path))
    /\ log' = log \o MimeWarning(mime_type, file_extension')
    /\ pc' = "dispatch"
    /\ UNCHANGED <<file_path, mime_type, fs, extracted_text, idx, route,
                   outcome, calls, prev>>

\* Lines 42-44, 49-54: pypdf.PdfReader(path)
OpenPdf ==
    /\ pc = "dispatch"
    /\ file_extension = ExtPdf
    /\ route' = "pdf"
    /\ IF fs.doc.io = "denied"
         THEN /\ Finish(<<>>, <<"error:pdf_unexpected">>)
              /\ idx' = idx
         ELSE IF fs.doc.kind # "pdf"
         THEN /\ Finish(<<>>, <<"error:pdf_read_error">>)
              /\ idx' = idx
         ELSE /\ pc' = "pdf_pages"
              /\ idx' = 1
              /\ UNCHANGED <<outcome, log>>
    /\ UNCHANGED <<file_path, mime_type, fs, file_extension, extracted_text,
                   calls, prev>>

\* Variant of ExtractPage without the `if page_text` test: every page adds
\* its text and a newline
ExtractPage_KeepEmpty ==
    /\ pc = "pdf_pages"
    /\ idx <= Len(fs.doc.units)
    /\ LET page == fs.doc.units[idx]
       IN  IF ~page.ok
             THEN /\ Finish(<<>>, <<"error:pdf_unexpected">>)
                  /\ UNCHANGED <<extracted_text, idx>>
             ELSE /\ extracted_text' = extracted_text \o page.text \o <<NL>>
                  /\ idx' = idx + 1
                  /\ UNCHANGED <<outcome, log, pc>>
    /\ UNCHANGED <<file_path, mime_type, fs, file_extension, route, calls, prev>>

\* Variant of ExtractPage whose failure handler returns the text gathered
\* so far
ExtractPage_ReturnPartial ==
    /\ pc = "pdf_pages"
    /\ idx <= Len(fs.doc.units)
    /\ LET page == fs.doc.units[idx]
       IN  IF ~page.ok
             THEN /\ Finish(Strip(extracted_text), <<"error:pdf_unexpected">>)
                  /\ UNCHANGED <<extracted_text, idx>>
             ELSE /\ extracted_text' =
                        IF page.text # <<>>
                          THEN extracted_text \o page.text \o <<NL>>
                          ELSE extracted_text
                  /\ idx' = idx + 1
                  /\ UNCHANGED <<outcome, log, pc>>
    /\ UNCHANGED <<file_path, mime_type, fs, file_extension, route, calls, prev>>

\* Variant of ExtractPage with a try/except around each page: a failing
\* page is logged and skipped, the loop goes on
ExtractPage_SkipFailedPage ==
    /\ pc = "pdf_pages"
    /\ idx <= Len(fs.doc.units)
    /\ LET page == fs.doc.units[idx]
       IN  /\ extracted_text' =
                 IF page.ok /\ page.text # <<>>
                   THEN extracted_text \o page.text \o <<NL>>
                   ELSE extracted_text
           /\ log' = IF page.ok THEN log ELSE log \o <<"error:pdf_unexpected">>
           /\ idx' = idx + 1
           /\ UNCHANGED <<outcome, pc>>
    /\ UNCHANGED <<file_path, mime_type, fs, file_extension, route, calls, prev>>

\* Lines 45-48, 52-54: one iteration of `for page in reader.pages`
ExtractPage ==
    /\ pc = "pdf_pages"
    /\ idx <= Len(fs.doc.units)
    /\ LET page == fs.doc.units[idx]
       IN  IF ~page.ok
             THEN /\ Finish(<<>>, <<"error:pdf_unexpected">>)
                  /\ UNCHANGED <<extracted_text, idx>>
             ELSE /\ extracted_text' =
                        IF page.text # <<>>
                          THEN extracted_text \o page.text \o <<NL>>
                          ELSE extracted_text
                  /\ idx' = idx + 1
                  /\ UNCHANGED <<outcome, log, pc>>
    /\ UNCHANGED <<file_path, mime_type, fs, file_extension, route, calls, prev>>

\* Lines 56-58, 61-63: docx.Document(path)
OpenDocx ==
    /\ pc = "dispatch"
    /\ file_extension = ExtDocx
    /\ route' = "docx"
    /\ IF fs.doc.io = "denied" \/ fs.doc.kind # "docx"
         THEN /\ Finish(<<>>, <<"error:docx_error">>)
              /\ idx' = idx
         ELSE /\ pc' = "docx_paras"
              /\ idx' = 1
              /\ UNCHANGED <<outcome, log>>
    /\ UNCHANGED <<file_path, mime_type, fs, file_extension, extracted_text,
                   calls, prev>>

\* Variant of AppendParagraph that skips empty paragraphs, as the PDF loop
\* skips empty pages
AppendParagraph_SkipEmpty ==
    /\ pc = "docx_paras"
    /\ idx <= Len(fs.doc.units)
    /\ LET para == fs.doc.units[idx]
       IN  IF ~para.ok
             THEN /\ Finish(<<>>, <<"error:docx_error">>)
                  /\ UNCHANGED <<extracted_text, idx>>
             ELSE /\ extracted_text' =
                        IF para.text # <<>>
                          THEN extracted_text \o para.text \o <<NL>>
                          ELSE extracted_text
                  /\ idx' = idx + 1
                  /\ UNCHANGED <<outcome, log, pc>>
    /\ UNCHANGED <<file_path, mime_type, fs, file_extension, route, calls, prev>>

\* Lines 59-63: one iteration of `for para in document.paragraphs`
AppendParagraph ==
    /\ pc = "docx_paras"
    /\ idx <= Len(fs.doc.units)
    /\ LET para == fs.doc.units[idx]
       IN  IF ~para.ok
             THEN /\ Finish(<<>>, <<"error:docx_error">>)
                  /\ UNCHANGED <<extracted_text, idx>>
             ELSE /\ extracted_text' = extracted_text \o para.text \o <<NL>>
                  /\ idx' = idx + 1
                  /\ UNCHANGED <<outcome, log, pc>>
    /\ UNCHANGED <<file_path, mime_type, fs, file_extension, route, calls, prev>>

\* Lines 65-70, 77-79: the UTF-8 read
ReadTxtUtf8 ==
    /\ pc = "dispatch"
    /\ file_extension = ExtTxt
    /\ route' = "txt"
    /\ LET r == ReadText(fs.doc.bytes, "utf-8")
       IN  IF fs.doc.io = "denied"
             THEN /\ Finish(<<>>, <<"error:txt_error">>)
                  /\ UNCHANGED extracted_text
             ELSE IF r.ok
             THEN /\ extracted_text' = r.text
                  /\ pc' = "strip"
                  /\ UNCHANGED <<outcome, log>>
             ELSE /\ log' = log \o <<"warning:utf8_failed">>
                  /\ pc' = "latin1"
                  /\ UNCHANGED <<outcome, extracted_text>>
    /\ UNCHANGED <<file_path, mime_type, fs, file_extension, idx, calls, prev>>

\* Lines 71-76: the latin-1 read after a UnicodeDecodeError
ReadTxtLatin1 ==
    /\ pc = "latin1"
    /\ LET r == ReadText(fs.doc.bytes, "latin-1")
       IN  IF fs.doc.io = "vanishes" \/ ~r.ok
             THEN /\ Finish(<<>>, <<"error:latin1_failed">>)
                  /\ UNCHANGED extracted_text
             ELSE /\ extracted_text' = r.text
                  /\ pc' = "strip"
                  /\ UNCHANGED <<outcome, log>>
    /\ UNCHANGED <<file_path, mime_type, fs, file_extension, idx, route,
                   calls, prev>>

\* Variant of Unsupported that answers like the other failures, with ""
Unsupported_ReturnsEmpty ==
    /\ pc = "dispatch"
    /\ file_extension \notin {ExtPdf, ExtDocx, ExtTxt}
    /\ route' = "unsupported"
    /\ Finish(<<>>, <<"warning:unsupported">>)
    /\ UNCHANGED <<file_path, mime_type, fs, file_extension, extracted_text,
                   idx, calls, prev>>

\* Lines 81-83: no branch of the if/elif chain matched
Unsupported ==
    /\ pc = "dispatch"
    /\ file_extension \notin {ExtPdf, ExtDocx, ExtTxt}
    /\ route' = "unsupported"
    /\ Finish(Sentinel, <<"warning:unsupported">>)
    /\ UNCHANGED <<file_path, mime_type, fs, file_extension, extracted_text,
                   idx, calls, prev>>

\* Line 92: return extracted_text.strip(), reached when a loop has run out
\* or the text file has been read
ReturnStripped ==
    /\ \/ pc = "strip"
       \/ pc \in {"pdf_pages", "docx_paras"} /\ idx > Len(fs.doc.units)
    /\ Finish(Strip(extracted_text), <<>>)
    /\ UNCHANGED <<file_path, mime_type, fs, file_extension, extracted_text,
                   idx, route, calls, prev>>

\* The events of a call other than the hint/extension mismatch warnings
IsMimeWarning(e) ==
    e \in {"warning:mime_suggests_pdf", "warning:mime_suggests_docx",
           "warning:mime_suggests_txt"}

\* The caller calls again on the same path, the file unchanged, with any
\* hint; every local starts afresh (lines 22-23), nothing is kept between
\* calls by the function itself.  prev is the observer's record of the call
\* that ended.
NextCall ==
    /\ pc = "done"
    /\ calls < MaxCalls
    /\ \E h \in Hints : mime_type' = h
    /\ prev' = [called |-> TRUE, mime_type |-> mime_type, outcome |-> outcome,
                route |-> route, log |-> SelectSeq(log, LAMBDA e : ~IsMimeWarning(e))]
    /\ calls' = calls + 1
    /\ pc' = "start"
    /\ file_extension' = <<>>
    /\ extracted_text' = <<>>
    /\ idx' = 0
    /\ route' = "none"
    /\ outcome' = NoOutcome
    /\ log' = <<>>
    /\ UNCHANGED <<file_path, fs>>

\* The handlers of lines 85-90 have no action: every statement inside the
\* outer try sits in an inner try whose last clause is `except Exception`
\* and whose handlers only log and return, so no exception reaches them.
Next ==
    \/ CheckExists
    \/ InspectHint
    \/ OpenPdf
    \/ ExtractPage
    \/ OpenDocx
    \/ AppendParagraph
    \/ ReadTxtUtf8
    \/ ReadTxtLatin1
    \/ Unsupported
    \/ ReturnStripped
    \/ NextCall

Spec == Init /\ [][Next]_vars

TypeOK ==
    /\ pc \in {"start", "hint", "dispatch", "pdf_pages", "docx_paras",
               "latin1", "strip", "done"}
    /\ outcome.kind \in {"none", "return", "raise"}
    /\ (pc = "done") = (outcome.kind # "none")
    /\ calls \in 1..MaxCalls

----------------------------------------------------------------------------
(* Vocabulary of the properties *)

Done == pc = "done"

\* The existence check of line 25 completed and found the entry
FoundExisting == fs.entry = "present" /\ fs.stat = "ok"

SupportedExtensions == {ExtPdf, ExtDocx, ExtTxt}

\* The extension of the path, compared case-insensitively
PathExtension == Lower(Suffix(file_path))

\* Removal of leading and trailing whitespace, stated by recursion on the
\* two ends of the string
RECURSIVE TrimLeft(_)
TrimLeft(s) ==
    IF s # <<>> /\ IsSpace(s[1]) THEN TrimLeft(Tail(s)) ELSE s

RECURSIVE TrimRight(_)
TrimRight(s) ==
    IF s # <<>> /\ IsSpace(s[Len(s)])
      THEN TrimRight(SubSeq(s, 1, Len(s) - 1))
      ELSE s

Trim(s) == TrimRight(TrimLeft(s))

\* The texts of a sequence of pages / paragraphs
Texts(units) == [i \in 1..Len(units) |-> units[i].text]

AllUnitsOk == \A i \in 1..Len(fs.doc.units) : fs.doc.units[i].ok

\* t1 "\n" t2 "\n" ... tn: one newline between consecutive texts
RECURSIVE JoinNewline(_)
JoinNewline(ts) ==
    IF ts = <<>> THEN <<>>
    ELSE IF Len(ts) = 1 THEN ts[1]
    ELSE ts[1] \o <<NL>> \o JoinNewline(Tail(ts))

\* t1 "\n" t2 "\n" ... tn "\n": a newline after every text
RECURSIVE EachFollowedByNewline(_)
EachFollowedByNewline(ts) ==
    IF ts = <<>> THEN <<>>
    ELSE ts[1] \o <<NL>> \o EachFollowedByNewline(Tail(ts))

\* The call ran on an existing .pdf that pypdf opened and read to the end
PdfReadThrough ==
    /\ Done /\ FoundExisting
    /\ PathExtension = ExtPdf
    /\ fs.doc.kind = "pdf" /\ fs.doc.io = "ok" /\ AllUnitsOk

\* The call ran on an existing .docx that python-docx opened and read to
\* the end
DocxReadThrough ==
    /\ Done /\ FoundExisting
    /\ PathExtension = ExtDocx
    /\ fs.doc.kind = "docx" /\ fs.doc.io = "ok" /\ AllUnitsOk

\* The call ran on an existing, readable .txt
TxtRead ==
    /\ Done /\ FoundExisting
    /\ PathExtension = ExtTxt
    /\ fs.doc.io = "ok"

InLog(e) == \E i \in 1..Len(log) : log[i] = e

----------------------------------------------------------------------------
(* Properties *)

\* C1: a call on a path that names no existing entry returns "", whatever
\* the extension and the hint.
C1_AbsentPathReturnsEmpty ==
    (Done /\ fs.entry = "absent") => outcome = Return(<<>>)

\* C2 as stated: a call on a path whose extension is none of .pdf, .docx,
\* .txt returns the sentinel, whether or not the path exists.
C2_AnyUnsupportedReturnsSentinel ==
    (Done /\ PathExtension \notin SupportedExtensions)
        => outcome = Return(Sentinel)

\* C2 amended: a call on a path the existence check found, whose extension
\* (lower-cased) is none of .pdf, .docx, .txt, returns exactly the sentinel.
C2_ExistingUnsupportedReturnsSentinel ==
    (Done /\ FoundExisting /\ PathExtension \notin SupportedExtensions)
        => outcome = Return(Sentinel)

C2_Witness ==
    /\ Done /\ FoundExisting
    /\ Suffix(file_path) = <<46,112,121>>   \* ".py"
    /\ mime_type.given
    /\ outcome = Return(Sentinel)

\* C3: no call ends with an exception reaching the caller; every call that
\* ends, ends by returning a string.
C3_NoFailureEscapes ==
    Done => outcome.kind = "return"

\* C4: two calls on the same file that differ only in the hint take the
\* same branch and end the same way, and log the same events apart from at
\* most one hint/extension mismatch warning each.
C4_HintNeverChangesResult ==
    (Done /\ prev.called) =>
        /\ outcome = prev.outcome
        /\ route = prev.route
        /\ SelectSeq(log, LAMBDA e : ~IsMimeWarning(e)) = prev.log
        /\ Len(SelectSeq(log, IsMimeWarning)) <= 1

C4_Witness ==
    /\ Done /\ prev.called
    /\ ~prev.mime_type.given
    /\ InLog("warning:mime_suggests_pdf")
    /\ route = "txt"
    /\ outcome = Return(<<65>>)

\* C5: for an existing .pdf read through, the result is the trimmed join,
\* with one newline between neighbours, of the non-empty page texts in page
\* order; empty pages leave no trace.
C5_PdfJoinsNonEmptyPages ==
    PdfReadThrough =>
        outcome = Return(Trim(JoinNewline(
                      SelectSeq(Texts(fs.doc.units), LAMBDA t : t # <<>>))))

C5_Witness ==
    /\ PdfReadThrough
    /\ Texts(fs.doc.units) = << <<65>>, <<>>, <<32,66>> >>
    /\ outcome = Return(<<65,10,32,66>>)

\* C6: for an existing .docx read through, the result is the trim of the
\* paragraphs each followed by a newline, empty paragraphs included;
\* ["A", "", "B"] gives "A\n\nB".
C6_DocxKeepsEveryParagraph ==
    DocxReadThrough =>
        /\ outcome = Return(Trim(EachFollowedByNewline(Texts(fs.doc.units))))
        /\ Texts(fs.doc.units) = << <<65>>, <<>>, <<66>> >>
              => outcome = Return(<<65,10,10,66>>)

C6_Witness ==
    /\ DocxReadThrough
    /\ Texts(fs.doc.units) = << <<65>>, <<>>, <<66>> >>
    /\ outcome = Return(<<65,10,10,66>>)

C8_Utf8TextOnlyTrimmed ==
    (TxtRead /\ Utf8Decode(fs.doc.bytes).ok) =>
        /\ outcome = Return(Trim(Utf8Decode(fs.doc.bytes).text))
        /\ ~InLog("warning:utf8_failed")

\* C8 amended: the call returns s with "\r\n" and "\r" read as "\n" and then
\* leading and trailing whitespace removed, without trying the fallback;
\* "Hello, world" comes back exactly.
C8_Utf8TextNewlinesThenTrimmed ==
    (TxtRead /\ Utf8Decode(fs.doc.bytes).ok) =>
        /\ outcome = Return(Trim(UniversalNewlines(Utf8Decode(fs.doc.bytes).text)))
        /\ ~InLog("warning:utf8_failed")
        /\ fs.doc.bytes = HelloBytes => outcome = Return(HelloBytes)

C8_Witness ==
    /\ TxtRead
    /\ fs.doc.bytes = <<10, 195, 160>>
    /\ outcome = Return(<<224>>)

\* C9: when the container of an existing .pdf or .docx cannot be opened, or
\* a page or paragraph fails after text has been gathered, the call returns
\* exactly "".
C9_ExtractorFailureReturnsEmpty ==
    ( /\ Done /\ FoundExisting
      /\ \/ PathExtension = ExtPdf  /\ fs.doc.kind # "pdf"
         \/ PathExtension = ExtDocx /\ fs.doc.kind # "docx"
         \/ PathExtension \in {ExtPdf, ExtDocx} /\ fs.doc.io = "denied"
         \/ PathExtension \in {ExtPdf, ExtDocx} /\ ~AllUnitsOk )
        => outcome = Return(<<>>)

C9_Witness ==
    /\ Done /\ FoundExisting
    /\ route = "pdf"
    /\ extracted_text # <<>>
    /\ ~AllUnitsOk
    /\ outcome = Return(<<>>)

PdfWithFailingPage ==
    /\ Done /\ FoundExisting
    /\ PathExtension = ExtPdf
    /\ fs.doc.kind = "pdf" /\ fs.doc.io = "ok" /\ ~AllUnitsOk

FirstFailingPage ==
    CHOOSE i \in 1..Len(fs.doc.units) :
        /\ ~fs.doc.units[i].ok
        /\ \A j \in 1..(i - 1) : fs.doc.units[j].ok

====
